---- MODULE Spec2Model ----
(***************************************************************************)
(* Card detection interlock (cardDetectionArduinoSoft/src/main.cpp).       *)
(*                                                                         *)
(* The program is setup() followed by an endless loop().  One iteration of *)
(* loop() (a "tick") is modelled as five consecutive steps, one per        *)
(* numbered section of the source: ReadFilter (1), SafetyCheck (2),        *)
(* Detect (3, debounce and state machine), SerialRx (4), Telemetry (5).    *)
(* pc names the section that runs next.                                    *)
(*                                                                         *)
(* Numbers: `int' is the 16 bit int of the AVR Arduino targets (ToInt16).  *)
(* millis() is a 32 bit unsigned counter; the model keeps the clock far    *)
(* below 2^32 (MaxTicks steps of at most 2001 ms), where the unsigned      *)
(* subtraction cur - last of the source is the plain difference.           *)
(* filteredValue is a float in the source; it is modelled in fixed point,  *)
(* as an integer count of 1/FilterScale units, truncated after each        *)
(* update.                                                                 *)
(***************************************************************************)
EXTENDS Integers, Sequences, FiniteSets, TLC

(***************************************************************************)
(* Program constants                                                       *)
(***************************************************************************)
WATCHDOG_TIMEOUT == 2000
DEBOUNCE_DELAY == 10
TELEMETRY_INTERVAL == 100
\* FILTER_ALPHA = 0.2 = FILTER_ALPHA_NUM / FILTER_ALPHA_DEN
FILTER_ALPHA_NUM == 2
FILTER_ALPHA_DEN == 10
ADC_MAX == 1023
SENSOR_RANGE_LOW == 50
SENSOR_RANGE_HIGH == 1000
DEFAULT_FLOOR_VALUE == 100
DEFAULT_CARD_THRESHOLD == 150
DEFAULT_CARD_UPPER_THRESHOLD == 800
INT_MODULUS == 65536

(***************************************************************************)
(* Bounds of the model                                                     *)
(***************************************************************************)
\* number of loop() iterations explored
MaxTicks == 2
\* resolution of the fixed point image of filteredValue
FilterScale == 1000
\* number of loop() iterations explored while envelopes pass the gate
MaxPassTicks == 6
\* number of loop() iterations explored around the debounce window
MaxBounceTicks == 5

(***************************************************************************)
(* Inputs                                                                  *)
(***************************************************************************)
\* analogRead(PIN_SENSOR): samples of the 10 bit ADC
RawSamples == {40, 900}
\* digitalRead(PIN_ENVELOPE)
PinLevels == {"HIGH", "LOW"}
\* milliseconds between the millis() calls of two consecutive iterations
TimeSteps == {1, 1999, 2001}

(***************************************************************************)
(* Text: a String is a sequence of one-character strings                   *)
(***************************************************************************)
Digits == <<"0", "1", "2", "3", "4", "5", "6", "7", "8", "9">>

IsDigit(c) == \E i \in 1..10 : Digits[i] = c

DigitVal(c) == (CHOOSE i \in 1..10 : Digits[i] = c) - 1

IsSpace(c) == c \in {" ", "\t", "\r", "\n"}

\* Print::print(int): decimal text of n
RECURSIVE DecNat(_)
DecNat(n) == IF n < 10 THEN <<Digits[n + 1]>>
             ELSE Append(DecNat(n \div 10), Digits[(n % 10) + 1])

DecStr(n) == IF n < 0 THEN <<"-">> \o DecNat(-n) ELSE DecNat(n)

\* String::trim(): drop leading and trailing white space
RECURSIVE TrimLeft(_)
TrimLeft(s) == IF s # <<>> /\ IsSpace(Head(s)) THEN TrimLeft(Tail(s)) ELSE s

RECURSIVE TrimRight(_)
TrimRight(s) == IF s # <<>> /\ IsSpace(s[Len(s)])
                THEN TrimRight(SubSeq(s, 1, Len(s) - 1)) ELSE s

trim(s) == TrimRight(TrimLeft(s))

\* String::startsWith(prefix)
startsWith(s, prefix) ==
    /\ Len(s) >= Len(prefix)
    /\ SubSeq(s, 1, Len(prefix)) = prefix

\* String::substring(from): the characters from index `from' (0 based) on
substring(s, from) == IF from >= Len(s) THEN <<>> ELSE SubSeq(s, from + 1, Len(s))

\* the leading run of digits of s, as a number (acc is the value so far)
RECURSIVE DigitRun(_, _)
DigitRun(s, acc) == IF s # <<>> /\ IsDigit(Head(s))
                    THEN DigitRun(Tail(s), 10 * acc + DigitVal(Head(s)))
                    ELSE acc

\* atol(): skip white space, optional sign, leading digits; 0 when none
atol(s) == LET t == TrimLeft(s)
           IN  IF t = <<>> THEN 0
               ELSE IF Head(t) = "-" THEN 0 - DigitRun(Tail(t), 0)
               ELSE IF Head(t) = "+" THEN DigitRun(Tail(t), 0)
               ELSE DigitRun(t, 0)

\* conversion of the long result to the 16 bit int `val'
ToInt16(n) == LET m == n % INT_MODULUS
              IN  IF m >= INT_MODULUS \div 2 THEN m - INT_MODULUS ELSE m

\* int val = cmd.substring(k).toInt();
toInt(s) == ToInt16(atol(s))

(***************************************************************************)
(* Serial lines                                                            *)
(***************************************************************************)
CMD_PING == <<"P", "I", "N", "G">>
CMD_RESUME == <<"R", "E", "S", "U", "M", "E">>
PFX_SET_THR == <<"S", "E", "T", "_", "T", "H", "R", ":">>
PFX_SET_THR_UPPER == <<"S", "E", "T", "_", "T", "H", "R", "_", "U", "P", "P", "E", "R", ":">>
PFX_SET_FLOOR == <<"S", "E", "T", "_", "F", "L", "O", "O", "R", ":">>
PFX_SET_MIN == <<"S", "E", "T", "_", "M", "I", "N", ":">>
PFX_SET_REVERSE == <<"S", "E", "T", "_", "R", "E", "V", "E", "R", "S", "E", ":">>
PFX_SET_OVERRIDE == <<"S", "E", "T", "_", "O", "V", "E", "R", "R", "I", "D", "E", ":">>
TXT_ABC == <<"a", "b", "c">>
TXT_YES == <<"y", "e", "s">>

\* numeric arguments sent with the SET_ commands
ThrArgs == {0, 900, 2000, 66436}
UpperArgs == {0, 500, 1024}
FloorArgs == {-1, 600, 1024}
FlagArgs == {0, 1}

\* the lines the host sends, as readStringUntil('\n') returns them
SerialLines ==
    {CMD_PING, CMD_PING \o <<"\r">>, CMD_RESUME, TXT_ABC}
    \cup {PFX_SET_THR \o DecStr(n) : n \in ThrArgs}
    \cup {PFX_SET_THR_UPPER \o DecStr(n) : n \in UpperArgs}
    \cup {PFX_SET_FLOOR \o DecStr(n) : n \in FloorArgs}
    \cup {PFX_SET_REVERSE \o DecStr(n) : n \in FlagArgs}
    \cup {PFX_SET_OVERRIDE \o DecStr(n) : n \in FlagArgs}
    \cup {PFX_SET_MIN \o DecStr(0), PFX_SET_THR \o TXT_ABC,
          PFX_SET_REVERSE \o TXT_ABC, PFX_SET_OVERRIDE \o TXT_YES}

(***************************************************************************)
(* State                                                                   *)
(***************************************************************************)
VARIABLES
    CFG_FLOOR_VALUE,            \* int
    CFG_CARD_THRESHOLD,         \* int
    CFG_CARD_UPPER_THRESHOLD,   \* int
    CFG_REVERSE_SENSOR,         \* bool
    CFG_SYSTEM_OVERRIDE,        \* bool
    filteredValue,              \* float, in 1/FilterScale units
    envelopeState,              \* stable level of PIN_ENVELOPE
    lastFlickerableState,       \* previous raw level of PIN_ENVELOPE
    lastDebounceTime,
    currentState,               \* "IDLE", "MEASURING", "FAULT"
    lastTelemetryTime,
    lastPingReceived,
    maxPeakInWindow,
    machineStopActive,
    pinEnableOut,               \* level written to PIN_ENABLE_OUT
    clock,                      \* what millis() returns
    currentMillis,              \* loop(): local, read once per iteration
    sensorValue,                \* loop(): local, (int)filteredValue
    command,                    \* loop(): <<line>> read this iteration, or <<>>
    out,                        \* lines printed to Serial by the last step
    pc,                         \* section of loop() that runs next
    ticks                       \* iterations of loop() started

cfgVars == <<CFG_FLOOR_VALUE, CFG_CARD_THRESHOLD, CFG_CARD_UPPER_THRESHOLD,
             CFG_REVERSE_SENSOR, CFG_SYSTEM_OVERRIDE>>

debounceVars == <<envelopeState, lastFlickerableState, lastDebounceTime>>

interlockVars == <<machineStopActive, currentState, pinEnableOut>>

vars == <<cfgVars, filteredValue, debounceVars, interlockVars, lastTelemetryTime,
          lastPingReceived, maxPeakInWindow, clock, currentMillis, sensorValue,
          command, out, pc, ticks>>

\* a line printed to Serial: fixed text followed by the numbers printed after it
Msg(text) == [text |-> text, arg |-> <<>>]

MsgN(text, n) == [text |-> text, arg |-> <<n>>]

(***************************************************************************)
(* Signal conditioning                                                     *)
(***************************************************************************)
\* if (CFG_REVERSE_SENSOR) value = 1023 - value;
Reverse(reverse, raw) == IF reverse THEN ADC_MAX - raw ELSE raw

\* Seed without the reversal
SeedNoReverse(reverse, raw) == raw * FilterScale

\* filteredValue = analogRead(PIN_SENSOR), reversed when configured
Seed(reverse, raw) == Reverse(reverse, raw) * FilterScale

\* filteredValue = (FILTER_ALPHA * rawValue) + ((1.0 - FILTER_ALPHA) * filteredValue)
Ema(rawValue, filtered) ==
    (FILTER_ALPHA_NUM * rawValue * FilterScale
        + (FILTER_ALPHA_DEN - FILTER_ALPHA_NUM) * filtered) \div FILTER_ALPHA_DEN

\* (int)filteredValue
Trunc(filtered) == filtered \div FilterScale

(***************************************************************************)
(* Interlock: the record m holds machineStopActive, currentState, the      *)
(* level of PIN_ENABLE_OUT and the lines printed                           *)
(***************************************************************************)
\* triggerStop() that leaves the detection state alone
triggerStopNoFault(m, reason) ==
    [m EXCEPT !.machineStopActive = TRUE,
              !.pinEnableOut = "LOW",
              !.out = Append(@, Msg(reason))]

triggerStop(m, reason) ==
    [m EXCEPT !.machineStopActive = TRUE,
              !.currentState = "FAULT",
              !.pinEnableOut = "LOW",
              !.out = Append(@, Msg(reason))]

\* Verdict with both bounds exclusive
VerdictExclusive(peak, threshold, upper) ==
    IF peak > threshold /\ peak < upper THEN "PASS"
    ELSE IF peak <= threshold THEN "EMPTY"
    ELSE "DOUBLE"

\* the three branches of validateResult()
Verdict(peak, threshold, upper) ==
    IF peak >= threshold /\ peak <= upper THEN "PASS"
    ELSE IF peak < threshold THEN "EMPTY"
    ELSE "DOUBLE"

\* failStop without the write to PIN_ENABLE_OUT
failStopNoPin(m, text, peak) ==
    [m EXCEPT !.out = Append(@, MsgN(text, peak)),
              !.machineStopActive = TRUE,
              !.currentState = "FAULT"]

\* the failure branches of validateResult() with the override off
failStop(m, text, peak) ==
    [m EXCEPT !.out = Append(@, MsgN(text, peak)),
              !.machineStopActive = TRUE,
              !.currentState = "FAULT",
              !.pinEnableOut = "LOW"]

\* validateResult that does not look at CFG_SYSTEM_OVERRIDE
validateResultNoOverride(m, peak, threshold, upper, override) ==
    LET v == Verdict(peak, threshold, upper)
    IN  IF v = "PASS" THEN [m EXCEPT !.out = Append(@, MsgN("EVT:PASS:", peak))]
        ELSE IF v = "EMPTY" THEN failStop(m, "ERR:EMPTY_ENVELOPE:", peak)
        ELSE failStop(m, "ERR:DOUBLE_CARD:", peak)

validateResult(m, peak, threshold, upper, override) ==
    LET v == Verdict(peak, threshold, upper)
    IN  IF v = "PASS" THEN [m EXCEPT !.out = Append(@, MsgN("EVT:PASS:", peak))]
        ELSE IF override
             THEN [m EXCEPT !.out = Append(@, MsgN("EVT:PASS_OVERRIDE:", peak))]
        ELSE IF v = "EMPTY" THEN failStop(m, "ERR:EMPTY_ENVELOPE:", peak)
        ELSE failStop(m, "ERR:DOUBLE_CARD:", peak)

\* resetSystem(), but for the filter (reseeded by Seed in SerialRx)
resetSystem(m) ==
    [m EXCEPT !.machineStopActive = FALSE,
              !.currentState = "IDLE",
              !.pinEnableOut = "HIGH",
              !.out = Append(@, Msg("MSG:System Resumed"))]

\* the interlock record of the current state, with nothing printed yet
Interlock ==
    [machineStopActive |-> machineStopActive, currentState |-> currentState,
     pinEnableOut |-> pinEnableOut, out |-> <<>>]

SetInterlock(m) ==
    /\ machineStopActive' = m.machineStopActive
    /\ currentState' = m.currentState
    /\ pinEnableOut' = m.pinEnableOut
    /\ out' = m.out

(***************************************************************************)
(* Command parser: the record c holds the configuration and the lines      *)
(* printed                                                                 *)
(***************************************************************************)
\* if (cmd.startsWith("SET_THR:")) ...
SetThr(c, cmd) ==
    IF startsWith(cmd, PFX_SET_THR)
    THEN LET val == toInt(substring(cmd, 8))
         IN  IF val > 0 /\ val <= ADC_MAX
             THEN [c EXCEPT !.CFG_CARD_THRESHOLD = val,
                            !.out = Append(@, MsgN("MSG:Card Threshold Set to ", val))]
             ELSE c
    ELSE c

\* if (cmd.startsWith("SET_THR_UPPER:")) ...
SetThrUpper(c, cmd) ==
    IF startsWith(cmd, PFX_SET_THR_UPPER)
    THEN LET val == toInt(substring(cmd, 14))
         IN  IF val > 0 /\ val <= ADC_MAX
             THEN [c EXCEPT !.CFG_CARD_UPPER_THRESHOLD = val,
                            !.out = Append(@, MsgN("MSG:Card Upper Threshold Set to ", val))]
             ELSE c
    ELSE c

\* if (cmd.startsWith("SET_FLOOR:")) ...
SetFloor(c, cmd) ==
    IF startsWith(cmd, PFX_SET_FLOOR)
    THEN LET val == toInt(substring(cmd, 10))
         IN  IF val >= 0 /\ val <= ADC_MAX
             THEN [c EXCEPT !.CFG_FLOOR_VALUE = val,
                            !.out = Append(@, MsgN("MSG:Floor Value Set to ", val))]
             ELSE c
    ELSE c

\* if (cmd.startsWith("SET_REVERSE:")) ...
SetReverse(c, cmd) ==
    IF startsWith(cmd, PFX_SET_REVERSE)
    THEN LET val == toInt(substring(cmd, 12))
         IN  [c EXCEPT !.CFG_REVERSE_SENSOR = (val = 1),
                       !.out = Append(@, Msg(IF val = 1 THEN "MSG:Reverse Sensor Enabled"
                                                       ELSE "MSG:Reverse Sensor Disabled"))]
    ELSE c

\* if (cmd.startsWith("SET_OVERRIDE:")) ...
SetOverride(c, cmd) ==
    IF startsWith(cmd, PFX_SET_OVERRIDE)
    THEN LET val == toInt(substring(cmd, 13))
         IN  [c EXCEPT !.CFG_SYSTEM_OVERRIDE = (val = 1),
                       !.out = Append(@, Msg(IF val = 1
                                             THEN "MSG:System Override ENABLED - Safety bypassed!"
                                             ELSE "MSG:System Override Disabled"))]
    ELSE c

\* the configuration part of processCommand(): the five SET_ tests in order
Configure(c, cmd) ==
    SetOverride(SetReverse(SetFloor(SetThrUpper(SetThr(c, cmd), cmd), cmd), cmd), cmd)

Config ==
    [CFG_FLOOR_VALUE |-> CFG_FLOOR_VALUE,
     CFG_CARD_THRESHOLD |-> CFG_CARD_THRESHOLD,
     CFG_CARD_UPPER_THRESHOLD |-> CFG_CARD_UPPER_THRESHOLD,
     CFG_REVERSE_SENSOR |-> CFG_REVERSE_SENSOR,
     CFG_SYSTEM_OVERRIDE |-> CFG_SYSTEM_OVERRIDE,
     out |-> <<>>]

SetConfig(c) ==
    /\ CFG_FLOOR_VALUE' = c.CFG_FLOOR_VALUE
    /\ CFG_CARD_THRESHOLD' = c.CFG_CARD_THRESHOLD
    /\ CFG_CARD_UPPER_THRESHOLD' = c.CFG_CARD_UPPER_THRESHOLD
    /\ CFG_REVERSE_SENSOR' = c.CFG_REVERSE_SENSOR
    /\ CFG_SYSTEM_OVERRIDE' = c.CFG_SYSTEM_OVERRIDE
    /\ out' = c.out

(***************************************************************************)
(* setup()                                                                 *)
(***************************************************************************)
Init ==
    /\ CFG_FLOOR_VALUE = DEFAULT_FLOOR_VALUE
    /\ CFG_CARD_THRESHOLD = DEFAULT_CARD_THRESHOLD
    /\ CFG_CARD_UPPER_THRESHOLD = DEFAULT_CARD_UPPER_THRESHOLD
    /\ CFG_REVERSE_SENSOR = FALSE
    /\ CFG_SYSTEM_OVERRIDE = FALSE
    /\ currentState = "IDLE"
    /\ maxPeakInWindow = 0
    /\ machineStopActive = FALSE
    /\ pinEnableOut = "HIGH"
    /\ clock = 0
    /\ lastTelemetryTime = 0
    /\ lastDebounceTime = 0
    /\ lastPingReceived = clock
    /\ \E raw \in RawSamples : filteredValue = Seed(CFG_REVERSE_SENSOR, raw)
    /\ envelopeState \in PinLevels
    /\ lastFlickerableState = envelopeState
    /\ currentMillis = 0
    /\ sensorValue = 0
    /\ command = <<>>
    /\ out = <<Msg("MSG:System Booted")>>
    /\ pc = "read"
    /\ ticks = 0

(***************************************************************************)
(* loop(), section 1: read and filter the sensor                           *)
(***************************************************************************)
ReadFilterWithin(steps, samples, limit) ==
    /\ pc = "read"
    /\ ticks < limit
    /\ \E dt \in steps, raw \in samples :
          /\ clock' = clock + dt
          /\ currentMillis' = clock'
          /\ filteredValue' = Ema(Reverse(CFG_REVERSE_SENSOR, raw), filteredValue)
          /\ sensorValue' = Trunc(filteredValue')
    /\ out' = <<>>
    /\ pc' = "safety"
    /\ ticks' = ticks + 1
    /\ UNCHANGED <<cfgVars, debounceVars, interlockVars, lastTelemetryTime,
                   lastPingReceived, maxPeakInWindow, command>>

ReadFilterOn(steps, samples) == ReadFilterWithin(steps, samples, MaxTicks)

(***************************************************************************)
(* loop(), section 2: watchdog and sensor range check                      *)
(***************************************************************************)
\* Watchdog that releases the stop while the host is alive
WatchdogAutoClear(m, override, cur, lastPing) ==
    IF ~override /\ cur - lastPing > WATCHDOG_TIMEOUT /\ ~m.machineStopActive
    THEN triggerStop(m, "ERR:WATCHDOG_TIMEOUT")
    ELSE IF cur - lastPing <= WATCHDOG_TIMEOUT /\ m.machineStopActive
    THEN [m EXCEPT !.machineStopActive = FALSE, !.pinEnableOut = "HIGH"]
    ELSE m

\* Watchdog that trips at the timeout, not after it
WatchdogInclusive(m, override, cur, lastPing) ==
    IF ~override /\ cur - lastPing >= WATCHDOG_TIMEOUT /\ ~m.machineStopActive
    THEN triggerStop(m, "ERR:WATCHDOG_TIMEOUT")
    ELSE m

\* A. PC connection watchdog
Watchdog(m, override, cur, lastPing) ==
    IF ~override /\ cur - lastPing > WATCHDOG_TIMEOUT /\ ~m.machineStopActive
    THEN triggerStop(m, "ERR:WATCHDOG_TIMEOUT")
    ELSE m

\* B. sensor range check
RangeCheck(m, override, value) ==
    IF ~override /\ (value < SENSOR_RANGE_LOW \/ value > SENSOR_RANGE_HIGH)
       /\ ~m.machineStopActive
    THEN triggerStop(m, "ERR:SENSOR_OUT_OF_RANGE")
    ELSE m

SafetyCheck ==
    /\ pc = "safety"
    /\ SetInterlock(RangeCheck(Watchdog(Interlock, CFG_SYSTEM_OVERRIDE,
                                        currentMillis, lastPingReceived),
                               CFG_SYSTEM_OVERRIDE, sensorValue))
    /\ pc' = "detect"
    /\ UNCHANGED <<cfgVars, filteredValue, debounceVars, lastTelemetryTime,
                   lastPingReceived, maxPeakInWindow, clock, currentMillis,
                   sensorValue, command, ticks>>

(***************************************************************************)
(* loop(), section 3: debounce of the envelope input and state machine     *)
(***************************************************************************)
\* lastDebounceTime after the raw level `reading' was read at time cur
DebounceTime(reading, lastRaw, lastChange, cur) ==
    IF reading # lastRaw THEN cur ELSE lastChange

\* debounce that accepts a level held for exactly the debounce delay
DebounceInclusive(reading, stable, lastChange, cur) ==
    IF cur - lastChange >= DEBOUNCE_DELAY /\ reading # stable THEN reading ELSE stable

\* envelopeState after the raw level `reading' was read at time cur
Debounce(reading, stable, lastChange, cur) ==
    IF cur - lastChange > DEBOUNCE_DELAY /\ reading # stable THEN reading ELSE stable

\* state machine whose FAULT state goes on tracking the envelope
StateMachineFaultTracks(m, peak, present, value, threshold, upper, override) ==
    CASE m.currentState \in {"IDLE", "FAULT"} ->
            IF present
            THEN [m |-> [m EXCEPT !.currentState = "MEASURING"], peak |-> 0]
            ELSE [m |-> m, peak |-> peak]
      [] OTHER ->
            LET p == IF value > peak THEN value ELSE peak
            IN  IF ~present
                THEN [m |-> [validateResult(m, p, threshold, upper, override)
                                EXCEPT !.currentState = "IDLE"],
                      peak |-> p]
                ELSE [m |-> m, peak |-> p]

\* state machine that validates the peak of the iterations before the last
StateMachineValidatesFirst(m, peak, present, value, threshold, upper, override) ==
    CASE m.currentState = "IDLE" ->
            IF present
            THEN [m |-> [m EXCEPT !.currentState = "MEASURING"], peak |-> 0]
            ELSE [m |-> m, peak |-> peak]
      [] m.currentState = "MEASURING" ->
            LET p == IF value > peak THEN value ELSE peak
            IN  IF ~present
                THEN [m |-> [validateResult(m, peak, threshold, upper, override)
                                EXCEPT !.currentState = "IDLE"],
                      peak |-> p]
                ELSE [m |-> m, peak |-> p]
      [] OTHER -> [m |-> m, peak |-> peak]

\* switch (currentState): sm holds the interlock record m and maxPeakInWindow
StateMachine(m, peak, present, value, threshold, upper, override) ==
    CASE m.currentState = "IDLE" ->
            IF present
            THEN [m |-> [m EXCEPT !.currentState = "MEASURING"], peak |-> 0]
            ELSE [m |-> m, peak |-> peak]
      [] m.currentState = "MEASURING" ->
            LET p == IF value > peak THEN value ELSE peak
            IN  IF ~present
                THEN [m |-> [validateResult(m, p, threshold, upper, override)
                                EXCEPT !.currentState = "IDLE"],
                      peak |-> p]
                ELSE [m |-> m, peak |-> p]
      [] OTHER -> [m |-> m, peak |-> peak]

DetectOn(levels) ==
    /\ pc = "detect"
    /\ \E reading \in levels :
          /\ lastDebounceTime' = DebounceTime(reading, lastFlickerableState,
                                              lastDebounceTime, currentMillis)
          /\ lastFlickerableState' = reading
          /\ envelopeState' = Debounce(reading, envelopeState, lastDebounceTime',
                                       currentMillis)
    /\ LET sm == StateMachine(Interlock, maxPeakInWindow, envelopeState' = "LOW",
                              sensorValue, CFG_CARD_THRESHOLD,
                              CFG_CARD_UPPER_THRESHOLD, CFG_SYSTEM_OVERRIDE)
       IN  /\ SetInterlock(sm.m)
           /\ maxPeakInWindow' = sm.peak
    /\ pc' = "serial"
    /\ UNCHANGED <<cfgVars, filteredValue, lastTelemetryTime, lastPingReceived,
                   clock, currentMillis, sensorValue, command, ticks>>

(***************************************************************************)
(* loop(), section 4: one line from Serial, processCommand()               *)
(***************************************************************************)
\* Serial.available() = 0
NoCommand ==
    /\ command' = <<>>
    /\ out' = <<>>
    /\ UNCHANGED <<cfgVars, filteredValue, interlockVars, lastPingReceived>>

\* processCommand() whose PING also releases the interlock
processCommandPingResets(cmd, raw) ==
    IF cmd = CMD_PING
    THEN /\ lastPingReceived' = clock
         /\ SetInterlock([resetSystem(Interlock) EXCEPT !.out = <<>>])
         /\ UNCHANGED <<cfgVars, filteredValue>>
    ELSE IF cmd = CMD_RESUME
    THEN /\ SetInterlock(resetSystem(Interlock))
         /\ filteredValue' = Seed(CFG_REVERSE_SENSOR, raw)
         /\ UNCHANGED <<cfgVars, lastPingReceived>>
    ELSE /\ SetConfig(Configure(Config, cmd))
         /\ UNCHANGED <<filteredValue, interlockVars, lastPingReceived>>

\* processCommand() whose RESUME also counts as a sign of life of the host
processCommandResumeRefreshes(cmd, raw) ==
    IF cmd = CMD_PING
    THEN /\ lastPingReceived' = clock
         /\ out' = <<>>
         /\ UNCHANGED <<cfgVars, filteredValue, interlockVars>>
    ELSE IF cmd = CMD_RESUME
    THEN /\ SetInterlock(resetSystem(Interlock))
         /\ filteredValue' = Seed(CFG_REVERSE_SENSOR, raw)
         /\ lastPingReceived' = clock
         /\ UNCHANGED cfgVars
    ELSE /\ SetConfig(Configure(Config, cmd))
         /\ UNCHANGED <<filteredValue, interlockVars, lastPingReceived>>

\* processCommand(cmd); raw is what analogRead() returns inside resetSystem()
processCommand(cmd, raw) ==
    IF cmd = CMD_PING
    THEN /\ lastPingReceived' = clock
         /\ out' = <<>>
         /\ UNCHANGED <<cfgVars, filteredValue, interlockVars>>
    ELSE IF cmd = CMD_RESUME
    THEN /\ SetInterlock(resetSystem(Interlock))
         /\ filteredValue' = Seed(CFG_REVERSE_SENSOR, raw)
         /\ UNCHANGED <<cfgVars, lastPingReceived>>
    ELSE /\ SetConfig(Configure(Config, cmd))
         /\ UNCHANGED <<filteredValue, interlockVars, lastPingReceived>>

SerialRxOn(lines, samples) ==
    /\ pc = "serial"
    /\ \/ NoCommand
       \/ \E line \in lines, raw \in samples :
             /\ command' = <<trim(line)>>
             /\ processCommand(trim(line), raw)
    /\ pc' = "telemetry"
    /\ UNCHANGED <<debounceVars, lastTelemetryTime, maxPeakInWindow, clock,
                   currentMillis, sensorValue, ticks>>

(***************************************************************************)
(* loop(), section 5: telemetry                                            *)
(***************************************************************************)
TelemetryLine ==
    [text |-> "D:",
     arg |-> <<sensorValue,
               IF envelopeState = "LOW" THEN 1 ELSE 0,
               IF machineStopActive THEN 1 ELSE 0>>]

Telemetry ==
    /\ pc = "telemetry"
    /\ IF currentMillis - lastTelemetryTime >= TELEMETRY_INTERVAL
       THEN /\ lastTelemetryTime' = currentMillis
            /\ out' = <<TelemetryLine>>
       ELSE /\ lastTelemetryTime' = lastTelemetryTime
            /\ out' = <<>>
    /\ command' = <<>>
    /\ pc' = "read"
    /\ UNCHANGED <<cfgVars, filteredValue, debounceVars, interlockVars,
                   lastPingReceived, maxPeakInWindow, clock, currentMillis,
                   sensorValue, ticks>>

(***************************************************************************)
(* The program with the inputs of the sections above                       *)
(***************************************************************************)
ReadFilter == ReadFilterOn(TimeSteps, RawSamples)

Detect == DetectOn(PinLevels)

SerialRx == SerialRxOn(SerialLines, RawSamples)

Next == ReadFilter \/ SafetyCheck \/ Detect \/ SerialRx \/ Telemetry

Spec == Init /\ [][Next]_vars

(***************************************************************************)
(* Validation alone: the states in the middle of a pass, with the peak,    *)
(* the reading and the thresholds over a grid around the boundaries; the   *)
(* safety check and the state machine step of that iteration run           *)
(***************************************************************************)
ValueGrid == {0, 49, 50, 149, 150, 151, 500, 799, 800, 801, 1000, 1001, 1023}

ThresholdGrid == {1, 150, 500, 800, 1023}

InitValidate ==
    /\ CFG_FLOOR_VALUE = DEFAULT_FLOOR_VALUE
    /\ CFG_CARD_THRESHOLD \in ThresholdGrid
    /\ CFG_CARD_UPPER_THRESHOLD \in ThresholdGrid
    /\ CFG_REVERSE_SENSOR = FALSE
    /\ CFG_SYSTEM_OVERRIDE \in BOOLEAN
    /\ currentState = "MEASURING"
    /\ maxPeakInWindow \in ValueGrid
    /\ machineStopActive = FALSE
    /\ pinEnableOut = "HIGH"
    /\ clock \in TimeSteps
    /\ currentMillis = clock
    /\ lastTelemetryTime = 0
    /\ lastDebounceTime = 0
    /\ lastPingReceived = 0
    /\ sensorValue \in ValueGrid
    /\ filteredValue = sensorValue * FilterScale
    /\ envelopeState = "LOW"
    /\ lastFlickerableState \in PinLevels
    /\ command = <<>>
    /\ out = <<>>
    /\ pc = "safety"
    /\ ticks = 1

NextValidate == SafetyCheck \/ Detect

SpecValidate == InitValidate /\ [][NextValidate]_vars

(***************************************************************************)
(* Envelopes passing the gate: the program from setup() on, over more      *)
(* iterations, with the host alive (iterations 11 ms apart, so that a      *)
(* level held for two iterations is stable); the host sends nothing or     *)
(* RESUME                                                                  *)
(***************************************************************************)
PassSteps == {11}

PassSamples == {40, 900}

PassLines == {CMD_RESUME}

\* analogRead() inside resetSystem()
ResumeSamples == {900}

NextPass ==
    \/ ReadFilterWithin(PassSteps, PassSamples, MaxPassTicks)
    \/ SafetyCheck
    \/ Detect
    \/ SerialRxOn(PassLines, ResumeSamples)
    \/ Telemetry

SpecPass == Init /\ [][NextPass]_vars

(***************************************************************************)
(* Contact bounce: the program from setup() on, with iterations 5 or 6 ms  *)
(* apart, so that a level is held for 10 ms, 11 ms or more around the      *)
(* debounce window, and a steady reading inside the sensor range           *)
(***************************************************************************)
BounceSteps == {5, 6}

BounceSamples == {500}

BounceLines == {CMD_PING}

NextBounce ==
    \/ ReadFilterWithin(BounceSteps, BounceSamples, MaxBounceTicks)
    \/ SafetyCheck
    \/ Detect
    \/ SerialRxOn(BounceLines, BounceSamples)
    \/ Telemetry

SpecBounce == Init /\ [][NextBounce]_vars

(***************************************************************************)
(* Properties                                                              *)
(***************************************************************************)
Printed(text) == \E i \in DOMAIN out : out[i].text = text

Resumed == command = <<CMD_RESUME>>

\* the state machine step that ends a pass: MEASURING and stable presence false
PassEnds ==
    /\ pc = "detect"
    /\ currentState = "MEASURING"
    /\ envelopeState' = "HIGH"

PeakFails(peak) == peak < CFG_CARD_THRESHOLD \/ peak > CFG_CARD_UPPER_THRESHOLD

\* C1: when a pass ends with a peak that fails validation and the override is
\* off, the state machine step ends with the interlock tripped, the enable
\* output at the stop level and the detection state FAULT.
C1_FailEndsInFault ==
    (pc = "serial" /\ (Printed("ERR:EMPTY_ENVELOPE:") \/ Printed("ERR:DOUBLE_CARD:")))
        => (machineStopActive /\ pinEnableOut = "LOW" /\ currentState = "FAULT")

\* C2: once machineStopActive is true it stays true over every step that does
\* not process a RESUME command.
C2_TripSticky ==
    [][(machineStopActive /\ ~Resumed') => machineStopActive']_vars

\* a line other than RESUME was processed while the interlock stayed tripped
C2_Witness ==
    /\ machineStopActive
    /\ command = <<PFX_SET_OVERRIDE \o DecStr(1)>>
    /\ CFG_SYSTEM_OVERRIDE

\* the filter value of one fresh sample, reversed when reversal is on
FreshSamples ==
    {(IF CFG_REVERSE_SENSOR THEN ADC_MAX - raw ELSE raw) * FilterScale :
        raw \in RawSamples}

\* C3: the step that processes RESUME ends with machineStopActive false, the
\* detection state IDLE, the enable output released and filteredValue equal to
\* one fresh sample (1023 - raw when the sensor is reversed).
C3_ResumeResets ==
    [][Resumed' => /\ ~machineStopActive'
                   /\ currentState' = "IDLE"
                   /\ pinEnableOut' = "HIGH"
                   /\ filteredValue' \in FreshSamples]_vars

\* RESUME processed with the sensor reversed, in an iteration whose watchdog
\* check found the host silent (so the interlock was tripped before it)
C3_Witness ==
    /\ Resumed
    /\ CFG_REVERSE_SENSOR
    /\ ~CFG_SYSTEM_OVERRIDE
    /\ currentMillis - lastPingReceived > WATCHDOG_TIMEOUT
    /\ ~machineStopActive

\* C4: machineStopActive is true exactly when the enable output is at the stop
\* level (LOW).
C4_StopIffPinLow == machineStopActive <=> (pinEnableOut = "LOW")

\* a failed validation has tripped the interlock
C4_Witness ==
    /\ pc = "serial"
    /\ Printed("ERR:DOUBLE_CARD:")
    /\ machineStopActive
    /\ pinEnableOut = "LOW"

WatchdogLine == Msg("ERR:WATCHDOG_TIMEOUT")

\* C5 as written: the safety check of an iteration trips an untripped
\* interlock with ERR:WATCHDOG_TIMEOUT exactly when more than 2000 ms passed
\* since the last processed PING (or boot).
C5_Original ==
    [][/\ (pc = "safety" /\ ~machineStopActive)
            => ((machineStopActive' /\ out' = <<WatchdogLine>>)
                    <=> currentMillis - lastPingReceived > WATCHDOG_TIMEOUT)
       /\ (command' = <<CMD_PING>>) => lastPingReceived' = clock
       /\ (command' # <<CMD_PING>>) => lastPingReceived' = lastPingReceived]_vars

\* C5, amended: with the override off, the safety check of an iteration trips
\* an untripped interlock with ERR:WATCHDOG_TIMEOUT exactly when more than
\* 2000 ms passed since the last processed PING (or boot); lastPingReceived is
\* the time of the last processed PING and no other step changes it.
C5_WatchdogIff ==
    [][/\ (pc = "safety" /\ ~CFG_SYSTEM_OVERRIDE /\ ~machineStopActive)
            => ((machineStopActive' /\ out' = <<WatchdogLine>>)
                    <=> currentMillis - lastPingReceived > WATCHDOG_TIMEOUT)
       /\ (command' = <<CMD_PING>>) => lastPingReceived' = clock
       /\ (command' # <<CMD_PING>>) => lastPingReceived' = lastPingReceived]_vars

\* a PING was processed 1999 ms after boot and the watchdog tripped 2001 ms
\* after that PING
C5_Witness ==
    /\ pc = "detect"
    /\ lastPingReceived = WATCHDOG_TIMEOUT - 1
    /\ currentMillis - lastPingReceived = WATCHDOG_TIMEOUT + 1
    /\ machineStopActive
    /\ out = <<WatchdogLine>>

\* C6: after the safety check of an iteration with the override off, the
\* interlock is tripped when the reading is outside 50..1000 or below
\* CFG_FLOOR_VALUE.
C6_HealthTrips ==
    (/\ pc = "detect"
     /\ ~CFG_SYSTEM_OVERRIDE
     /\ \/ sensorValue < SENSOR_RANGE_LOW
        \/ sensorValue > SENSOR_RANGE_HIGH
        \/ sensorValue < CFG_FLOOR_VALUE)
        => machineStopActive

\* C7: 0 <= CFG_CARD_THRESHOLD <= CFG_CARD_UPPER_THRESHOLD <= 1023.
C7_ThresholdsOrdered ==
    /\ 0 <= CFG_CARD_THRESHOLD
    /\ CFG_CARD_THRESHOLD <= CFG_CARD_UPPER_THRESHOLD
    /\ CFG_CARD_UPPER_THRESHOLD <= ADC_MAX

\* the line printed for a peak by the reference policy
ReferenceText(peak, low, high, override) ==
    IF peak < low
    THEN (IF override THEN "EVT:PASS_OVERRIDE:" ELSE "ERR:EMPTY_ENVELOPE:")
    ELSE IF peak > high
    THEN (IF override THEN "EVT:PASS_OVERRIDE:" ELSE "ERR:DOUBLE_CARD:")
    ELSE "EVT:PASS:"

CapturedPeak == IF sensorValue > maxPeakInWindow THEN sensorValue ELSE maxPeakInWindow

\* C8 as written: the step that ends a pass prints exactly one verdict, the one
\* of the reference policy (ERR:EMPTY_ENVELOPE below the lower threshold,
\* ERR:DOUBLE_CARD above the upper one, EVT:PASS otherwise, both bounds
\* inclusive), with the captured peak as its number.
C8_Original ==
    [][PassEnds =>
         /\ maxPeakInWindow' = CapturedPeak
         /\ out' = <<MsgN(ReferenceText(CapturedPeak, CFG_CARD_THRESHOLD,
                                        CFG_CARD_UPPER_THRESHOLD, FALSE),
                          CapturedPeak)>>]_vars

\* C8, amended: as C8, but with the override on the two failing verdicts are
\* printed as EVT:PASS_OVERRIDE:<peak>.
C8_VerdictMatchesPolicy ==
    [][PassEnds =>
         /\ maxPeakInWindow' = CapturedPeak
         /\ out' = <<MsgN(ReferenceText(CapturedPeak, CFG_CARD_THRESHOLD,
                                        CFG_CARD_UPPER_THRESHOLD,
                                        CFG_SYSTEM_OVERRIDE),
                          CapturedPeak)>>]_vars

\* a pass ended with its peak on the upper threshold and was accepted
C8_Witness ==
    /\ pc = "serial"
    /\ CFG_CARD_THRESHOLD < CFG_CARD_UPPER_THRESHOLD
    /\ maxPeakInWindow = CFG_CARD_UPPER_THRESHOLD
    /\ out = <<MsgN("EVT:PASS:", maxPeakInWindow)>>
    /\ currentState = "IDLE"

\* C9: no step taken with the override on trips an untripped interlock, and a
\* pass that ends with a failing peak prints EVT:PASS_OVERRIDE:<peak>, leaves
\* machineStopActive and the enable output as they were and ends in IDLE.
C9_OverrideNeverTrips ==
    [][CFG_SYSTEM_OVERRIDE =>
         /\ ~machineStopActive => (~machineStopActive' /\ pinEnableOut' = "HIGH")
         /\ (PassEnds /\ PeakFails(CapturedPeak)) =>
               /\ out' = <<MsgN("EVT:PASS_OVERRIDE:", CapturedPeak)>>
               /\ UNCHANGED <<machineStopActive, pinEnableOut>>
               /\ currentState' = "IDLE"]_vars

\* a failing pass was waved through with the interlock untripped
C9_Witness ==
    /\ pc = "serial"
    /\ CFG_SYSTEM_OVERRIDE
    /\ PeakFails(maxPeakInWindow)
    /\ out = <<MsgN("EVT:PASS_OVERRIDE:", maxPeakInWindow)>>
    /\ ~machineStopActive
    /\ pinEnableOut = "HIGH"
    /\ currentState = "IDLE"

\* the step changed nothing but the record of the line read, and printed nothing
CommandIgnored ==
    /\ out' = <<>>
    /\ UNCHANGED <<cfgVars, filteredValue, debounceVars, interlockVars,
                   lastTelemetryTime, lastPingReceived, maxPeakInWindow>>

\* the step set nothing but the configuration, and printed one line about n
CommandAccepted(n) ==
    /\ Len(out') = 1
    /\ out'[1].arg = <<n>>
    /\ UNCHANGED <<CFG_REVERSE_SENSOR, CFG_SYSTEM_OVERRIDE, filteredValue,
                   debounceVars, interlockVars, lastTelemetryTime,
                   lastPingReceived, maxPeakInWindow>>

\* the effect C10 gives to the line prefix<n>, accepted for n in low..1023
RangeChecked(prefix, n, low, accepted) ==
    (command' = <<prefix \o DecStr(n)>>) =>
        IF n >= low /\ n <= ADC_MAX THEN CommandAccepted(n) /\ accepted
        ELSE CommandIgnored

\* C10: SET_THR and SET_THR_UPPER with a number outside 1..1023, and SET_FLOOR
\* with a number outside 0..1023, change nothing and print nothing; with a
\* number inside the range they set exactly the addressed value and print one
\* confirmation.
C10_RangeChecked ==
    [][\A n \in ThrArgs \cup UpperArgs \cup FloorArgs :
         /\ RangeChecked(PFX_SET_THR, n, 1,
                /\ CFG_CARD_THRESHOLD' = n
                /\ UNCHANGED <<CFG_CARD_UPPER_THRESHOLD, CFG_FLOOR_VALUE>>)
         /\ RangeChecked(PFX_SET_THR_UPPER, n, 1,
                /\ CFG_CARD_UPPER_THRESHOLD' = n
                /\ UNCHANGED <<CFG_CARD_THRESHOLD, CFG_FLOOR_VALUE>>)
         /\ RangeChecked(PFX_SET_FLOOR, n, 0,
                /\ CFG_FLOOR_VALUE' = n
                /\ UNCHANGED <<CFG_CARD_THRESHOLD, CFG_CARD_UPPER_THRESHOLD>>)]_vars

\* C11: the step that processes PING sets lastPingReceived to the current time
\* and leaves machineStopActive, the enable output, the detection state, the
\* peak, the filtered value, the debounce state and every configuration value
\* unchanged, and prints nothing.
C11_PingOnlyRefreshes ==
    [][(pc = "serial" /\ command' = <<CMD_PING>>) =>
         /\ lastPingReceived' = clock
         /\ out' = <<>>
         /\ UNCHANGED <<cfgVars, filteredValue, debounceVars, interlockVars,
                        maxPeakInWindow, lastTelemetryTime>>]_vars

\* PING was processed while the interlock was tripped by the watchdog
C11_Witness ==
    /\ command = <<CMD_PING>>
    /\ pc = "telemetry"
    /\ machineStopActive
    /\ currentState = "FAULT"
    /\ pinEnableOut = "LOW"
    /\ lastPingReceived = clock
    /\ clock > WATCHDOG_TIMEOUT

\* C12: the step that processes SET_MIN:<n> with 0 <= n <= 1023 sets
\* CFG_FLOOR_VALUE to n and prints one confirmation, as SET_FLOOR:<n> does.
C12_SetMinSetsFloor ==
    [][\A n \in {0} :
         (pc = "serial" /\ command' = <<PFX_SET_MIN \o DecStr(n)>>) =>
            /\ CFG_FLOOR_VALUE' = n
            /\ CommandAccepted(n)]_vars

\* the safety check that ran just before printed a trip of the interlock
SafetyTripped ==
    /\ pc = "detect"
    /\ Printed("ERR:WATCHDOG_TIMEOUT") \/ Printed("ERR:SENSOR_OUT_OF_RANGE")

\* C13: in an iteration whose safety check trips the interlock, the state
\* machine step starts and ends in FAULT (so it takes neither IDLE->MEASURING
\* nor MEASURING->IDLE), leaves the peak as it was and prints no verdict.
C13_TripSuppressesDetection ==
    [][SafetyTripped =>
         /\ machineStopActive
         /\ currentState = "FAULT"
         /\ currentState' = "FAULT"
         /\ maxPeakInWindow' = maxPeakInWindow
         /\ out' = <<>>]_vars

\* the first iteration tripped on the sensor range while an envelope was
\* present and above the peak recorded so far
C13_Witness ==
    /\ ticks = 1
    /\ pc = "serial"
    /\ machineStopActive
    /\ currentState = "FAULT"
    /\ envelopeState = "LOW"
    /\ sensorValue < SENSOR_RANGE_LOW
    /\ sensorValue > maxPeakInWindow
    /\ out = <<>>

\* C15: the state machine step moves from IDLE to MEASURING only when the
\* stable presence changes from absent to present in that step.
C15_WindowOpensAtArrival ==
    [][(currentState = "IDLE" /\ currentState' = "MEASURING")
          => (envelopeState = "HIGH" /\ envelopeState' = "LOW")]_vars

\* the watchdog condition as the safety check of an iteration evaluates it
HostSilent == currentMillis - lastPingReceived > WATCHDOG_TIMEOUT

\* C20: the step that processes RESUME leaves lastPingReceived as it was; the
\* steps from there to the next safety check change neither it nor the
\* released interlock nor the override and the clock does not go back; and a
\* safety check that finds the interlock released, the override off and the
\* host silent for more than 2000 ms trips it again: machineStopActive, FAULT
\* and ERR:WATCHDOG_TIMEOUT.  Only a PING moves lastPingReceived.
C20_ResumeKeepsPingTime ==
    [][/\ Resumed' => (lastPingReceived' = lastPingReceived /\ ~machineStopActive')
       /\ (lastPingReceived' # lastPingReceived) => command' = <<CMD_PING>>
       /\ (pc \in {"telemetry", "read"}) =>
             /\ UNCHANGED <<machineStopActive, CFG_SYSTEM_OVERRIDE>>
             /\ currentMillis' >= currentMillis
       /\ (pc = "safety" /\ ~machineStopActive /\ ~CFG_SYSTEM_OVERRIDE /\ HostSilent) =>
             /\ machineStopActive'
             /\ currentState' = "FAULT"
             /\ pinEnableOut' = "LOW"
             /\ out' # <<>>
             /\ Head(out') = WatchdogLine]_vars

\* the watchdog tripped in the first iteration, RESUME released the interlock
\* in that iteration with no PING, and the watchdog of the second iteration
\* tripped it again
C20_Witness ==
    /\ ticks = 2
    /\ pc = "detect"
    /\ lastPingReceived = 0
    /\ currentMillis = 2 * (WATCHDOG_TIMEOUT + 1)
    /\ ~CFG_SYSTEM_OVERRIDE
    /\ machineStopActive
    /\ currentState = "FAULT"
    /\ out # <<>>
    /\ Head(out) = WatchdogLine

\* the SET_ lines sent with a value that is not a number
MalformedLines ==
    {PFX_SET_THR \o TXT_ABC, PFX_SET_REVERSE \o TXT_ABC, PFX_SET_OVERRIDE \o TXT_YES}

\* C18: the step that processes a SET_ line whose value is not a number
\* changes no configuration value (nor anything else) and prints nothing.
C18_MalformedDropped ==
    [][(pc = "serial" /\ \E line \in MalformedLines : command' = <<line>>)
          => CommandIgnored]_vars

VerdictTexts ==
    {"EVT:PASS:", "EVT:PASS_OVERRIDE:", "ERR:EMPTY_ENVELOPE:", "ERR:DOUBLE_CARD:"}

\* a validation verdict is among the printed lines
VerdictIn(lines) == \E i \in DOMAIN lines : lines[i].text \in VerdictTexts

\* C14: a step taken in FAULT ends in FAULT, with the peak as it was and no
\* verdict printed, unless it processes RESUME; the step that processes RESUME
\* ends in IDLE.
C14_FaultAbsorbing ==
    [][currentState = "FAULT" =>
         IF Resumed'
         THEN currentState' = "IDLE"
         ELSE /\ currentState' = "FAULT"
              /\ maxPeakInWindow' = maxPeakInWindow
              /\ ~VerdictIn(out')]_vars

\* FAULT since the range trip of an earlier iteration (the reading is back in
\* range and the host is alive), through a change of the envelope input and a
\* reading above the recorded peak
C14_Witness ==
    /\ ticks >= 3
    /\ pc = "serial"
    /\ currentState = "FAULT"
    /\ machineStopActive
    /\ sensorValue >= SENSOR_RANGE_LOW
    /\ sensorValue <= SENSOR_RANGE_HIGH
    /\ ~HostSilent
    /\ envelopeState = "LOW"
    /\ lastDebounceTime > 0
    /\ sensorValue > maxPeakInWindow

\* the state machine step opens a measurement window
WindowOpens == currentState # "MEASURING" /\ currentState' = "MEASURING"

\* C16: the peak is set to 0 by the step that takes IDLE -> MEASURING; it
\* changes in no other step but the state machine step of an iteration in
\* MEASURING, which sets it to the larger of the peak and the reading of that
\* iteration (so it never decreases), the iteration that ends the pass
\* included; the verdict of the pass carries the peak so obtained.
C16_PeakTracksMaximum ==
    [][/\ (currentState = "IDLE" /\ currentState' = "MEASURING")
             => maxPeakInWindow' = 0
       /\ (maxPeakInWindow' # maxPeakInWindow)
             => (pc = "detect" /\ (WindowOpens \/ currentState = "MEASURING"))
       /\ (pc = "detect" /\ currentState = "MEASURING") =>
             /\ maxPeakInWindow' = CapturedPeak
             /\ maxPeakInWindow' >= maxPeakInWindow
             /\ maxPeakInWindow' >= sensorValue
       /\ PassEnds =>
             /\ Len(out') = 1
             /\ out'[1].text \in VerdictTexts
             /\ out'[1].arg = <<maxPeakInWindow'>>]_vars

\* a pass ended whose peak was read in an earlier iteration of the window:
\* the reading of the last iteration is below the peak in the verdict
C16_Witness ==
    /\ pc = "serial"
    /\ currentState = "IDLE"
    /\ envelopeState = "HIGH"
    /\ Len(out) = 1
    /\ out[1].text \in VerdictTexts
    /\ out[1].arg = <<maxPeakInWindow>>
    /\ maxPeakInWindow > sensorValue
    /\ sensorValue > 0

\* C19: a state machine step taken with the interlock tripped opens no
\* measurement window and prints no verdict.
C19_TrippedMeansNoWindow ==
    [][(pc = "detect" /\ machineStopActive)
          => (~WindowOpens /\ ~VerdictIn(out'))]_vars

\* C17: the stable level envelopeState changes in a step only to the raw level
\* read in that step, only when that level is the one read in the previous
\* iteration, and only when more than DEBOUNCE_DELAY ms have passed since
\* lastDebounceTime; lastDebounceTime is the time of the last iteration whose
\* raw level differed from the one before (every change of the raw level sets
\* it to the current time and leaves the stable level alone, nothing else
\* moves it), so the raw level has been the same in every iteration of that
\* time.
C17_StableAfterWindow ==
    [][/\ (debounceVars' # debounceVars) => pc = "detect"
       /\ (pc = "detect" /\ lastFlickerableState' # lastFlickerableState) =>
             /\ lastDebounceTime' = currentMillis
             /\ envelopeState' = envelopeState
       /\ (pc = "detect" /\ lastFlickerableState' = lastFlickerableState) =>
             lastDebounceTime' = lastDebounceTime
       /\ (envelopeState' # envelopeState) =>
             /\ envelopeState' = lastFlickerableState'
             /\ lastFlickerableState' = lastFlickerableState
             /\ currentMillis - lastDebounceTime > DEBOUNCE_DELAY]_vars

\* an envelope present at boot left: the raw level changed to HIGH after boot
\* and was held for 11 ms, and this step made HIGH the stable level and ended
\* the pass
C17_Witness ==
    /\ pc = "serial"
    /\ VerdictIn(out)
    /\ envelopeState = "HIGH"
    /\ lastFlickerableState = "HIGH"
    /\ lastDebounceTime > 0
    /\ currentMillis - lastDebounceTime = DEBOUNCE_DELAY + 1

====
